---- MODULE Spec2Model ----
(***************************************************************************)
(* A model of module-typer: the type-text to JSON-Schema conversion        *)
(* (typeToJsonSchema), the enumeration of a module's exports, and the      *)
(* fetchTypes pipeline (manifest, module load, schema generation).         *)
(*                                                                         *)
(* Type texts are sequences of one-character strings, so that the regular  *)
(* expressions and the string methods of the source are computed character *)
(* by character, as the source computes them.                              *)
(***************************************************************************)
EXTENDS Integers, Sequences, FiniteSets, TLC

VARIABLES
    \* typeToJsonSchema calls
    typeNode,      \* the type whose printed text is handed to typeToJsonSchema
    typeText,      \* the typeString argument of the call
    schema,        \* the fragment the call returned (NoSchema before it returns)
    tpc,           \* "detail" before getDetailedType, "call" before the call
                   \* of typeToJsonSchema, "returned" after it
    \* one invocation of fetchTypes
    version,       \* the source that runs: "api.mjs" or "part_000"
    providedPath,  \* the path fetchTypes is called with
    loadFile,      \* the loader: the one handed to api.mjs, part_000's own
    fpc,           \* where the invocation is
    loaded,        \* the files asked of loadFile, in order
    manifest,      \* what loadFile gave for package.json
    moduleFile,    \* what loadFile gave for the main file
    allSchemas,    \* api.mjs: the schemas of the generated definitions
    sourceFile,    \* the top-level statements visited so far
    exportNames,   \* api.mjs: the names pushed so far
    exports,       \* part_000: the {name, type} entries pushed so far
    outcome,       \* what the caller of fetchTypes got
    \* the schema generator of api.mjs
    now,           \* Date.now()
    tmpdir,        \* the files of os.tmpdir(): path to content
    calls,         \* the invocations of getExportsSchema that make a temp file
    tsjSchema,     \* the schema createSchema returned
    processedDefinitions  \* its definitions after resolveRefs

schemaVars == <<typeNode, typeText, schema, tpc>>

\* what an invocation of fetchTypes never changes
callVars == <<version, providedPath, loadFile>>

fetchVars ==
    <<version, providedPath, loadFile, fpc, loaded, manifest, moduleFile, allSchemas, sourceFile,
      exportNames, exports, outcome>>

\* the generator's temp file, and its invocations
tempVars == <<now, tmpdir, calls>>

\* the generated schema and its processed definitions
refVars == <<tsjSchema, processedDefinitions>>

generatorVars == <<tempVars, refVars>>

vars == <<schemaVars, fetchVars, generatorVars>>

-----------------------------------------------------------------------------
(* Characters and the string methods of JavaScript the source uses.          *)

WordChars ==
    {"a", "b", "c", "d", "e", "f", "g", "h", "i", "j", "k", "l", "m", "n", "o",
     "p", "q", "r", "s", "t", "u", "v", "w", "x", "y", "z", "A", "B", "C", "D",
     "E", "F", "G", "H", "I", "J", "K", "L", "M", "N", "O", "P", "Q", "R", "S",
     "T", "U", "V", "W", "X", "Y", "Z", "0", "1", "2", "3", "4", "5", "6", "7",
     "8", "9", "_"}

\* \s of a regular expression, and what String.prototype.trim strips
WhiteSpace == {" ", "\n", "\t", "\r"}

\* what '.' of a regular expression without the s flag does not match
LineTerminators == {"\n", "\r"}

\* s.startsWith(p)
startsWith(s, p) ==
    /\ Len(s) >= Len(p)
    /\ SubSeq(s, 1, Len(p)) = p

\* s.endsWith(p)
endsWith(s, p) ==
    /\ Len(s) >= Len(p)
    /\ SubSeq(s, Len(s) - Len(p) + 1, Len(s)) = p

\* s.indexOf(p, from), 1-based; 0 when p does not occur at or after from
RECURSIVE indexOf(_, _, _)
indexOf(s, p, from) ==
    IF from + Len(p) - 1 > Len(s) THEN 0
    ELSE IF SubSeq(s, from, from + Len(p) - 1) = p THEN from
    ELSE indexOf(s, p, from + 1)

\* s.includes(p)
includes(s, p) == indexOf(s, p, 1) # 0

\* the first position at or after from whose character is in set; 0 when none
RECURSIVE firstIn(_, _, _)
firstIn(s, set, from) ==
    IF from > Len(s) THEN 0
    ELSE IF s[from] \in set THEN from
    ELSE firstIn(s, set, from + 1)

\* the last position whose character is c; 0 when none
RECURSIVE lastIndexOfChar(_, _, _)
lastIndexOfChar(s, c, upto) ==
    IF upto < 1 THEN 0
    ELSE IF s[upto] = c THEN upto
    ELSE lastIndexOfChar(s, c, upto - 1)

\* the number of characters of set at the start of s, from position from
RECURSIVE runLength(_, _, _)
runLength(s, set, from) ==
    IF from > Len(s) \/ s[from] \notin set THEN 0
    ELSE 1 + runLength(s, set, from + 1)

\* the number of white-space characters at the end of s
RECURSIVE trailingSpace(_)
trailingSpace(s) ==
    IF s = <<>> \/ s[Len(s)] \notin WhiteSpace THEN 0
    ELSE 1 + trailingSpace(SubSeq(s, 1, Len(s) - 1))

\* s.trim()
trim(s) ==
    LET lead == runLength(s, WhiteSpace, 1)
    IN  IF lead = Len(s) THEN <<>>
        ELSE SubSeq(s, lead + 1, Len(s) - trailingSpace(s))

\* s.split(sep) for a non-empty separator: the pieces between the occurrences
\* of sep, found left to right without overlap
RECURSIVE split(_, _)
split(s, sep) ==
    LET at == indexOf(s, sep, 1)
    IN  IF at = 0 THEN <<s>>
        ELSE <<SubSeq(s, 1, at - 1)>> \o split(SubSeq(s, at + Len(sep), Len(s)), sep)

-----------------------------------------------------------------------------
(* The string literals of typeToJsonSchema.                                  *)

kwString == <<"s", "t", "r", "i", "n", "g">>
kwNumber == <<"n", "u", "m", "b", "e", "r">>
kwBoolean == <<"b", "o", "o", "l", "e", "a", "n">>
kwNull == <<"n", "u", "l", "l">>
kwUndefined == <<"u", "n", "d", "e", "f", "i", "n", "e", "d">>
kwAny == <<"a", "n", "y">>
kwUnknown == <<"u", "n", "k", "n", "o", "w", "n">>
arraySuffix == <<"[", "]">>
reactFC == <<"R", "e", "a", "c", "t", ".", "F", "C", "<">>
functionComponent ==
    <<"F", "u", "n", "c", "t", "i", "o", "n", "C", "o", "m", "p", "o", "n", "e",
      "n", "t", "<">>
unionSeparator == <<" ", "|", " ">>
arrow == <<"=", ">">>
reactDescription ==
    <<"R", "e", "a", "c", "t", " ", "C", "o", "m", "p", "o", "n", "e", "n", "t",
      ":", " ">>
functionDescription == <<"F", "u", "n", "c", "t", "i", "o", "n", ":", " ">>
fallbackDescription ==
    <<"T", "y", "p", "e", "S", "c", "r", "i", "p", "t", " ", "t", "y", "p", "e",
      ":", " ">>

\* the empty object {}
EmptyObject == [f \in {} |-> TRUE]

\* the value of a property an object does not have
Undefined == [undefined |-> TRUE]

\* obj[key], undefined when obj has no such property
get(obj, key) == IF key \in DOMAIN obj THEN obj[key] ELSE Undefined

\* a regular expression that did not match
NoMatch == [found |-> FALSE]

-----------------------------------------------------------------------------
(* The regular expressions of typeToJsonSchema.                              *)

\* propertyRegex = /(\w+)(\?)?:\s*([^;]+);/g tried at position i alone.
\* \w+ takes the whole run of word characters (a shorter one is followed by a
\* word character, which is neither '?' nor ':'); [^;]+ runs to the first ';'
\* and needs one character, which \s* gives back when all of them are spaces.
propertyMatchAt(s, i) ==
    IF i > Len(s) \/ s[i] \notin WordChars THEN NoMatch
    ELSE
      LET nameEnd == i + runLength(s, WordChars, i) - 1
          q == nameEnd + 1
          optional == q + 1 <= Len(s) /\ s[q] = "?" /\ s[q + 1] = ":"
          colon == IF optional THEN q + 1
                   ELSE IF q <= Len(s) /\ s[q] = ":" THEN q
                   ELSE 0
          semi == IF colon = 0 THEN 0 ELSE firstIn(s, {";"}, colon + 1)
      IN  IF colon = 0 \/ semi = 0 \/ semi = colon + 1 THEN NoMatch
          ELSE
            LET ws == runLength(s, WhiteSpace, colon + 1)
                typeStart == IF colon + ws + 1 >= semi THEN semi - 1
                             ELSE colon + ws + 1
            IN  [found |-> TRUE,
                 index |-> i,
                 name |-> SubSeq(s, i, nameEnd),
                 optional |-> optional,
                 type |-> SubSeq(s, typeStart, semi - 1),
                 lastIndex |-> semi + 1]

\* propertyRegex.exec(typeString) with the expression's lastIndex at from: the
\* leftmost match at or after from
RECURSIVE execPropertyRegex(_, _)
execPropertyRegex(s, from) ==
    IF from > Len(s) THEN NoMatch
    ELSE LET m == propertyMatchAt(s, from)
         IN  IF m.found THEN m ELSE execPropertyRegex(s, from + 1)

\* the matches of the while loop over propertyRegex.exec, in order
RECURSIVE propertyMatches(_, _)
propertyMatches(s, from) ==
    LET m == execPropertyRegex(s, from)
    IN  IF ~m.found THEN <<>>
        ELSE <<m>> \o propertyMatches(s, m.lastIndex)

\* where (.+) starts after '=>' and \s*: \s* is greedy and gives characters
\* back until '.' finds one that is no line terminator; 0 when there is none
RECURSIVE returnStart(_, _, _)
returnStart(s, r, k) ==
    IF k < 0 THEN 0
    ELSE IF r + k <= Len(s) /\ s[r + k] \notin LineTerminators THEN r + k
    ELSE returnStart(s, r, k - 1)

\* /\(([^)]*)\)\s*=>\s*(.+)/ tried at position i alone
functionMatchAt(s, i) ==
    IF i > Len(s) \/ s[i] # "(" THEN NoMatch
    ELSE
      LET close == firstIn(s, {")"}, i + 1)
          q == close + 1 + runLength(s, WhiteSpace, close + 1)
          isArrow == close # 0 /\ q + 1 <= Len(s) /\ SubSeq(s, q, q + 1) = arrow
          r == q + 2
          start == IF isArrow THEN returnStart(s, r, runLength(s, WhiteSpace, r))
                   ELSE 0
      IN  IF start = 0 THEN NoMatch
          ELSE
            LET nl == firstIn(s, LineTerminators, start)
                stop == IF nl = 0 THEN Len(s) ELSE nl - 1
            IN  [found |-> TRUE,
                 index |-> i,
                 paramString |-> SubSeq(s, i + 1, close - 1),
                 returnType |-> SubSeq(s, start, stop)]

\* typeString.match(/\(([^)]*)\)\s*=>\s*(.+)/): the leftmost match
RECURSIVE functionMatch(_, _)
functionMatch(s, from) ==
    IF from > Len(s) THEN NoMatch
    ELSE LET m == functionMatchAt(s, from)
         IN  IF m.found THEN m ELSE functionMatch(s, from + 1)

\* propsMatch that ends the match at the first '>' after the '<'
propsMatch_firstClose(s) ==
    LET lt == firstIn(s, {"<"}, 1)
        gt == IF lt = 0 THEN 0 ELSE firstIn(s, {">"}, lt + 1)
    IN  IF lt = 0 \/ gt < lt + 2 THEN NoMatch
        ELSE [found |-> TRUE, props |-> SubSeq(s, lt + 1, gt - 1)]

\* typeString.match(/<(.+)>/s): from the first '<' to the last '>', with at
\* least one character between them
propsMatch(s) ==
    LET lt == firstIn(s, {"<"}, 1)
        gt == lastIndexOfChar(s, ">", Len(s))
    IN  IF lt = 0 \/ gt < lt + 2 THEN NoMatch
        ELSE [found |-> TRUE, props |-> SubSeq(s, lt + 1, gt - 1)]

-----------------------------------------------------------------------------
(* typeToJsonSchema: a type text to a JSON-Schema fragment.                  *)

RECURSIVE typeToJsonSchema(_)

\* the exact-keyword tests that open typeToJsonSchema
isPrimitive(typeString) ==
    typeString \in {kwString, kwNumber, kwBoolean, kwNull, kwUndefined, kwAny,
                    kwUnknown}

\* primitiveSchema with 'undefined' given a type of its own
primitiveSchema_undefinedType(typeString) ==
    IF typeString = kwString THEN [type |-> "string"]
    ELSE IF typeString = kwNumber THEN [type |-> "number"]
    ELSE IF typeString = kwBoolean THEN [type |-> "boolean"]
    ELSE IF typeString = kwNull THEN [type |-> "null"]
    ELSE IF typeString = kwUndefined THEN [type |-> "undefined"]
    ELSE EmptyObject

primitiveSchema(typeString) ==
    IF typeString = kwString THEN [type |-> "string"]
    ELSE IF typeString = kwNumber THEN [type |-> "number"]
    ELSE IF typeString = kwBoolean THEN [type |-> "boolean"]
    ELSE IF typeString = kwNull THEN [type |-> "null"]
    ELSE IF typeString = kwUndefined THEN [type |-> "null"]
    ELSE EmptyObject

\* the test of the array branch
isArray(typeString) == endsWith(typeString, arraySuffix)

\* typeString.slice(0, -2)
itemType(typeString) == SubSeq(typeString, 1, Len(typeString) - 2)

arraySchema(typeString) ==
    [type |-> "array", items |-> typeToJsonSchema(itemType(typeString))]

\* the test of the React component branch
isReactComponent(typeString) ==
    includes(typeString, reactFC) \/ includes(typeString, functionComponent)

\* reactSchema that keeps no text of the type when the props are not expanded
reactSchema_noTsType(typeString) ==
    LET m == propsMatch(typeString)
        propsType == IF m.found THEN trim(m.props) ELSE kwAny
    IN  IF m.found /\ startsWith(propsType, <<"{">>) /\ endsWith(propsType, <<"}">>)
        THEN [type |-> "object",
              description |-> reactDescription \o typeString,
              properties |-> get(typeToJsonSchema(propsType), "properties")]
        ELSE [type |-> "object",
              description |-> reactDescription \o typeString]

reactSchema(typeString) ==
    LET m == propsMatch(typeString)
        propsType == IF m.found THEN trim(m.props) ELSE kwAny
    IN  IF m.found /\ startsWith(propsType, <<"{">>) /\ endsWith(propsType, <<"}">>)
        THEN [type |-> "object",
              description |-> reactDescription \o typeString,
              properties |-> get(typeToJsonSchema(propsType), "properties")]
        ELSE [type |-> "object",
              description |-> reactDescription \o typeString,
              tsType |-> typeString]

\* the test of the object branch
isObject(typeString) ==
    startsWith(typeString, <<"{">>) /\ endsWith(typeString, <<"}">>)

\* the names pushed to schema.required, in order
RECURSIVE requiredNames(_)
requiredNames(ms) ==
    IF ms = <<>> THEN <<>>
    ELSE (IF ms[1].optional THEN <<>> ELSE <<ms[1].name>>) \o requiredNames(Tail(ms))

objectSchema(typeString) ==
    LET ms == propertyMatches(typeString, 1)
        names == {ms[i].name : i \in DOMAIN ms}
        \* a later assignment to schema.properties[name] replaces an earlier one
        last(n) == CHOOSE i \in DOMAIN ms :
                       /\ ms[i].name = n
                       /\ \A j \in DOMAIN ms : ms[j].name = n => j <= i
        properties == [n \in names |-> typeToJsonSchema(trim(ms[last(n)].type))]
        required == requiredNames(ms)
    IN  IF required = <<>>
        THEN [type |-> "object", properties |-> properties]
        ELSE [type |-> "object", properties |-> properties, required |-> required]

\* the test of the union branch
isUnion(typeString) == includes(typeString, unionSeparator)

\* typeString.split(' | ').map(t => t.trim())
unionTypes(typeString) ==
    LET parts == split(typeString, unionSeparator)
    IN  [i \in DOMAIN parts |-> trim(parts[i])]

isNullType(t) == t = kwNull \/ t = kwUndefined

unionSchema(typeString) ==
    LET types == unionTypes(typeString)
        hasNull == \E i \in DOMAIN types : isNullType(types[i])
        nonNullTypes == SelectSeq(types, LAMBDA t : ~isNullType(t))
    IN  IF Len(nonNullTypes) = 1 /\ hasNull
        THEN [nullable |-> TRUE] @@ typeToJsonSchema(nonNullTypes[1])
        ELSE [oneOf |-> [i \in DOMAIN types |-> typeToJsonSchema(types[i])]]

\* the test of the function branch
isFunction(typeString) ==
    includes(typeString, arrow) \/ startsWith(typeString, <<"(">>)

\* one parameter: param.split(':').map(p => p.trim()), the first two pieces,
\* and 'any' for a type that is missing or empty
parameter(param) ==
    LET pieces == split(param, <<":">>)
        type == IF Len(pieces) >= 2 THEN trim(pieces[2]) ELSE <<>>
    IN  [name |-> trim(pieces[1]),
         type |-> IF type = <<>> THEN kwAny ELSE type]

\* params of the function branch
parameters(typeString) ==
    LET m == functionMatch(typeString, 1)
    IN  IF m.found /\ trim(m.paramString) # <<>>
        THEN LET pieces == split(m.paramString, <<",">>)
             IN  [i \in DOMAIN pieces |-> parameter(pieces[i])]
        ELSE <<>>

\* returnType that starts as 'unknown'
returnType_unknown(typeString) ==
    LET m == functionMatch(typeString, 1)
    IN  IF m.found THEN trim(m.returnType) ELSE kwUnknown

\* returnType of the function branch
returnType(typeString) ==
    LET m == functionMatch(typeString, 1)
    IN  IF m.found THEN trim(m.returnType) ELSE kwAny

functionSchema(typeString) ==
    LET params == parameters(typeString)
    IN  [type |-> "object",
         description |-> functionDescription \o typeString,
         parameters |-> [i \in DOMAIN params |->
                            [name |-> params[i].name,
                             schema |-> typeToJsonSchema(params[i].type)]],
         returns |-> typeToJsonSchema(returnType(typeString))]

\* the default case
fallbackSchema(typeString) ==
    [type |-> "string", description |-> fallbackDescription \o typeString]

typeToJsonSchema(typeString) ==
    IF isPrimitive(typeString) THEN primitiveSchema(typeString)
    ELSE IF isArray(typeString) THEN arraySchema(typeString)
    ELSE IF isReactComponent(typeString) THEN reactSchema(typeString)
    ELSE IF isObject(typeString) THEN objectSchema(typeString)
    ELSE IF isUnion(typeString) THEN unionSchema(typeString)
    ELSE IF isFunction(typeString) THEN functionSchema(typeString)
    ELSE fallbackSchema(typeString)

\* the texts typeToJsonSchema(typeString) calls itself with
recursiveCalls(typeString) ==
    IF isPrimitive(typeString) THEN {}
    ELSE IF isArray(typeString) THEN {itemType(typeString)}
    ELSE IF isReactComponent(typeString)
    THEN LET m == propsMatch(typeString)
             propsType == IF m.found THEN trim(m.props) ELSE kwAny
         IN  IF /\ m.found
                /\ startsWith(propsType, <<"{">>)
                /\ endsWith(propsType, <<"}">>)
             THEN {propsType}
             ELSE {}
    ELSE IF isObject(typeString)
    THEN LET ms == propertyMatches(typeString, 1)
         IN  {trim(ms[i].type) : i \in DOMAIN ms}
    ELSE IF isUnion(typeString)
    THEN LET types == unionTypes(typeString)
             hasNull == \E i \in DOMAIN types : isNullType(types[i])
             nonNullTypes == SelectSeq(types, LAMBDA t : ~isNullType(t))
         IN  IF Len(nonNullTypes) = 1 /\ hasNull
             THEN {nonNullTypes[1]}
             ELSE {types[i] : i \in DOMAIN types}
    ELSE IF isFunction(typeString)
    THEN LET params == parameters(typeString)
         IN  {params[i].type : i \in DOMAIN params} \cup {returnType(typeString)}
    ELSE {}

-----------------------------------------------------------------------------
(* The type texts handed to typeToJsonSchema: types, and their printed text. *)

\* the bounds of the types drawn
MaxMembers == 2
MaxParams == 2
MaxUnion == 3

Prim(name) == [k |-> "primitive", name |-> name]
Arr(elem) == [k |-> "array", elem |-> elem]
Obj(members, style) == [k |-> "object", members |-> members, style |-> style]
Uni(members) == [k |-> "union", members |-> members]
Fn(params, returns, tight) ==
    [k |-> "function", params |-> params, returns |-> returns, tight |-> tight]
Gen(name, args) == [k |-> "generic", name |-> name, args |-> args]

\* s1 sep s2 sep ... sn
RECURSIVE join(_, _)
join(texts, sep) ==
    IF texts = <<>> THEN <<>>
    ELSE IF Len(texts) = 1 THEN texts[1]
    ELSE texts[1] \o sep \o join(Tail(texts), sep)

\* s1 s2 ... sn
RECURSIVE concat(_)
concat(texts) ==
    IF texts = <<>> THEN <<>> ELSE texts[1] \o concat(Tail(texts))

\* The printed text of a type.  An object literal is printed
\*   "plain"  { a: string; b?: number }      (no ';' after the last member)
\*   "semi"   { a: string; b?: number; }
\*   "tight"  {a: string; b?: number}
\*   "multi"  one member a line, each ended by ';', as the compiler prints
\*            with MultilineObjectLiterals
\* a function type "(x: number, y: string) => boolean" or, tight,
\* "(x:number,y:string)=>boolean"; an array of a union or of a function in
\* parentheses; a generic instantiation "Name<A, B>".
RECURSIVE typeToString(_)
typeToString(node) ==
    CASE node.k = "primitive" -> node.name
      [] node.k = "array" ->
            (IF node.elem.k \in {"union", "function"}
             THEN <<"(">> \o typeToString(node.elem) \o <<")">>
             ELSE typeToString(node.elem)) \o arraySuffix
      [] node.k = "object" ->
            LET member(m) == m.name \o (IF m.optional THEN <<"?">> ELSE <<>>)
                                 \o <<":", " ">> \o typeToString(m.type)
                texts == [i \in DOMAIN node.members |-> member(node.members[i])]
            IN  IF texts = <<>> THEN <<"{", "}">>
                ELSE (CASE node.style = "plain" ->
                            <<"{", " ">> \o join(texts, <<";", " ">>) \o <<" ", "}">>
                       [] node.style = "semi" ->
                            <<"{", " ">> \o join(texts, <<";", " ">>) \o <<";", " ", "}">>
                       [] node.style = "tight" ->
                            <<"{">> \o join(texts, <<";", " ">>) \o <<"}">>
                       [] node.style = "multi" ->
                            <<"{", "\n">>
                            \o concat([i \in DOMAIN texts |->
                                          <<" ", " ">> \o texts[i] \o <<";", "\n">>])
                            \o <<"}">>)
      [] node.k = "union" ->
            join([i \in DOMAIN node.members |-> typeToString(node.members[i])],
                 unionSeparator)
      [] node.k = "function" ->
            LET param(p) == p.name
                               \o (IF node.tight THEN <<":">> ELSE <<":", " ">>)
                               \o typeToString(p.type)
                paramTexts == [i \in DOMAIN node.params |-> param(node.params[i])]
            IN  <<"(">>
                \o join(paramTexts, IF node.tight THEN <<",">> ELSE <<",", " ">>)
                \o (IF node.tight THEN <<")", "=", ">">> ELSE <<")", " ", "=", ">", " ">>)
                \o typeToString(node.returns)
      [] node.k = "generic" ->
            node.name \o <<"<">>
            \o join([i \in DOMAIN node.args |-> typeToString(node.args[i])],
                    <<",", " ">>)
            \o <<">">>

kwFoo == <<"F", "o", "o">>
kwVoid == <<"v", "o", "i", "d">>

PrimitiveNames ==
    {kwString, kwNumber, kwBoolean, kwNull, kwUndefined, kwAny, kwUnknown}

PrimNodes == {Prim(n) : n \in PrimitiveNames \cup {kwFoo, kwVoid}}

NullNodes == {Prim(kwNull), Prim(kwUndefined)}

\* the types of members and parameters
SimpleNodes == {Prim(kwString), Prim(kwNumber)}

MemberNames == <<(<<"a">>), (<<"b">>), (<<"c">>), (<<"d">>)>>
ParamNames == <<(<<"x">>), (<<"y">>), (<<"z">>), (<<"w">>)>>
Styles == {"plain", "semi", "tight", "multi"}

\* the member lists of n members named a, b, ... with types among types
MemberLists(n, types) ==
    {[i \in 1..n |-> [name |-> MemberNames[i], optional |-> o[i], type |-> t[i]]] :
        o \in [1..n -> BOOLEAN], t \in [1..n -> types]}

ParamLists(n, types) ==
    {[i \in 1..n |-> [name |-> ParamNames[i], type |-> t[i]]] : t \in [1..n -> types]}

\* object literals whose members have simple types
FlatObjects ==
    UNION {{Obj(ms, st) : ms \in MemberLists(n, SimpleNodes), st \in Styles} :
              n \in 0..MaxMembers}

\* function types with simple parameter types and a primitive return type
FlatFunctions ==
    UNION {{Fn(ps, r, t) : ps \in ParamLists(n, SimpleNodes),
                           r \in {Prim(kwBoolean), Prim(kwVoid)},
                           t \in BOOLEAN} : n \in 0..MaxParams}

\* unions of primitives
FlatUnions ==
    UNION {{Uni(ms) : ms \in [1..n -> {Prim(kwString), Prim(kwNumber),
                                       Prim(kwNull), Prim(kwUndefined)}]} :
              n \in 2..MaxUnion}

FlatArrays == {Arr(e) : e \in PrimNodes}

\* one type of each shape, to nest in another
Nested ==
    {Arr(Prim(kwString)),
     Obj(<<[name |-> <<"x">>, optional |-> FALSE, type |-> Prim(kwNumber)],
           [name |-> <<"y">>, optional |-> FALSE, type |-> Prim(kwString)]>>, "tight"),
     Obj(<<[name |-> <<"x">>, optional |-> FALSE, type |-> Prim(kwNumber)],
           [name |-> <<"y">>, optional |-> TRUE, type |-> Prim(kwString)]>>, "semi"),
     Obj(<<[name |-> <<"x">>, optional |-> FALSE,
            type |-> Uni(<<Prim(kwString), Prim(kwNumber)>>)]>>, "semi"),
     Uni(<<Prim(kwString), Prim(kwNumber)>>),
     Uni(<<Prim(kwString), Prim(kwNull)>>),
     Fn(<<[name |-> <<"x">>, type |-> Prim(kwNumber)]>>, Prim(kwString), TRUE),
     Fn(<<[name |-> <<"x">>, type |-> Prim(kwNumber)]>>, Prim(kwString), FALSE),
     Fn(<<[name |-> <<"x">>, type |-> Prim(kwNumber)],
          [name |-> <<"y">>, type |-> Prim(kwString)]>>, Prim(kwVoid), FALSE)}

\* types one level deeper: an array of, an object with a member of, a union
\* with null or undefined of, and a function returning, a nested type
DeepTypes ==
    {Arr(e) : e \in Nested}
    \cup {Obj(<<[name |-> <<"a">>, optional |-> o, type |-> e],
                [name |-> <<"b">>, optional |-> FALSE, type |-> Prim(kwNumber)]>>, st) :
            o \in BOOLEAN, e \in Nested, st \in Styles}
    \cup {Uni(<<e, n>>) : e \in Nested, n \in NullNodes}
    \cup {Uni(<<n, e>>) : e \in Nested, n \in NullNodes}
    \cup {Uni(<<e, n>>) : e \in FlatArrays \cup {Prim(kwFoo)}, n \in NullNodes}
    \cup {Fn(ps, e, FALSE) : ps \in ParamLists(1, SimpleNodes), e \in Nested}

\* the names of the component aliases and of a generic type
nameFC == <<"R", "e", "a", "c", "t", ".", "F", "C">>
nameFunctionComponent ==
    <<"R", "e", "a", "c", "t", ".">>
    \o SubSeq(functionComponent, 1, Len(functionComponent) - 1)
nameArray == <<"A", "r", "r", "a", "y">>

\* functions of one parameter x whose type is a union
UnionParamFunctions ==
    {Fn(<<[name |-> <<"x">>, type |-> Uni(<<Prim(kwString), m>>)]>>, r, FALSE) :
        m \in {Prim(kwNumber), Prim(kwNull)}, r \in {Prim(kwVoid), Prim(kwBoolean)}}

\* functions of one parameter cb whose type is a function of n parameters
CallbackFunctions ==
    {Fn(<<[name |-> <<"c", "b">>, type |-> Fn(ps, Prim(kwVoid), FALSE)]>>,
        r, FALSE) :
        ps \in UNION {ParamLists(n, SimpleNodes) : n \in 0..MaxParams},
        r \in {Prim(kwVoid), Prim(kwBoolean)}}

\* object literals with a member comp that is a component and a member n
ComponentMemberObjects ==
    {Obj(<<[name |-> <<"c", "o", "m", "p">>, optional |-> o,
            type |-> Gen(name, <<Prim(<<"P">>)>>)],
           [name |-> <<"n">>, optional |-> FALSE, type |-> Prim(kwNumber)]>>, st) :
        o \in BOOLEAN, name \in {nameFC, nameFunctionComponent}, st \in Styles}

TypeNodes ==
    PrimNodes \cup FlatArrays \cup FlatObjects \cup FlatFunctions \cup FlatUnions
    \cup DeepTypes \cup UnionParamFunctions \cup CallbackFunctions
    \cup ComponentMemberObjects

-----------------------------------------------------------------------------
(* The calls of typeToJsonSchema.                                            *)

\* the fragment of a call that has not returned
NoSchema == [pending |-> TRUE]

\* no invocation of fetchTypes
NoFetch ==
    /\ version = "none"
    /\ providedPath = ""
    /\ loadFile = "none"
    /\ fpc = "idle"
    /\ loaded = <<>>
    /\ manifest = Undefined
    /\ moduleFile = Undefined
    /\ allSchemas = Undefined
    /\ sourceFile = <<>>
    /\ exportNames = <<>>
    /\ exports = <<>>
    /\ outcome = Undefined

\* no temp file, and no generated schema
NoTemp ==
    /\ now = 0
    /\ tmpdir = EmptyObject
    /\ calls = <<>>

NoRefs ==
    /\ tsjSchema = Undefined
    /\ processedDefinitions = Undefined

NoGenerator == NoTemp /\ NoRefs

InitSchema ==
    /\ typeNode \in TypeNodes
    /\ typeText = typeToString(typeNode)
    /\ schema = NoSchema
    /\ tpc = "call"
    /\ NoFetch
    /\ NoGenerator

\* schema.properties[exp.name] = typeToJsonSchema(exp.type)
CallTypeToJsonSchema ==
    /\ tpc = "call"
    /\ schema' = typeToJsonSchema(typeText)
    /\ tpc' = "returned"
    /\ UNCHANGED <<typeNode, typeText, fetchVars, generatorVars>>

NextSchema == CallTypeToJsonSchema

SpecSchema == InitSchema /\ [][NextSchema]_vars

-----------------------------------------------------------------------------
(* Claims about typeToJsonSchema, checked under SpecSchema.                  *)

\* the names of the members of an object literal
memberNames(node) == {node.members[i].name : i \in DOMAIN node.members}

\* the names of its members not marked '?', in order
RECURSIVE requiredMembers(_)
requiredMembers(members) ==
    IF members = <<>> THEN <<>>
    ELSE (IF members[1].optional THEN <<>> ELSE <<members[1].name>>)
         \o requiredMembers(Tail(members))

\* the fragment of a type's printed text
schemaOf(node) == typeToJsonSchema(typeToString(node))

\* C1: for every object literal whose members are separated by ';', with or
\* without a ';' after the last member, the fragment has type 'object', one
\* property per member, and 'required' lists exactly the names of the members
\* not marked '?' (and is omitted when there are none).
C1_ObjectMembersAndRequired ==
    (tpc = "returned" /\ typeNode \in FlatObjects) =>
        /\ "type" \in DOMAIN schema /\ schema.type = "object"
        /\ "properties" \in DOMAIN schema
        /\ DOMAIN schema.properties = memberNames(typeNode)
        /\ \A i \in DOMAIN typeNode.members :
              schema.properties[typeNode.members[i].name]
                  = schemaOf(typeNode.members[i].type)
        /\ IF requiredMembers(typeNode.members) = <<>>
           THEN "required" \notin DOMAIN schema
           ELSE /\ "required" \in DOMAIN schema
                /\ schema.required = requiredMembers(typeNode.members)

\* C3: for every type text A that is not null or undefined, the fragments of
\* "A | null" and of "A | undefined" are the fragment of "A" with the one more
\* field nullable = true.
C3_NullableIsMemberPlusFlag ==
    (/\ tpc = "returned"
     /\ typeNode.k = "union"
     /\ Len(typeNode.members) = 2
     /\ typeNode.members[1] \notin NullNodes
     /\ typeNode.members[2] \in NullNodes) =>
        schema = [nullable |-> TRUE] @@ schemaOf(typeNode.members[1])

\* C4: for a function type "(p1: T1, ..., pn: Tn) => R" with simple parameter
\* types, 'parameters' has n entries, the i-th with name pi and the fragment
\* of Ti, and 'returns' is the fragment of R.
C4_FunctionParametersAndReturns ==
    (tpc = "returned" /\ typeNode.k = "function") =>
        /\ "parameters" \in DOMAIN schema
        /\ Len(schema.parameters) = Len(typeNode.params)
        /\ \A i \in DOMAIN typeNode.params :
              schema.parameters[i]
                  = [name |-> typeNode.params[i].name,
                     schema |-> schemaOf(typeNode.params[i].type)]
        /\ "returns" \in DOMAIN schema
        /\ schema.returns = schemaOf(typeNode.returns)

\* C5: the members of an object literal are split only at the ';' of nesting
\* depth 0: an object one of whose members is a function type or a nested
\* object literal yields exactly its own members.
C5_MembersSplitAtDepthZero ==
    (/\ tpc = "returned"
     /\ typeNode.k = "object"
     /\ \E i \in DOMAIN typeNode.members :
           typeNode.members[i].type.k \in {"function", "object"}) =>
        /\ "properties" \in DOMAIN schema
        /\ DOMAIN schema.properties = memberNames(typeNode)

\* C6: the fragment of "T[]" is {type: 'array', items: the fragment of "T"},
\* and only when the '[]' belongs to the whole type: a union whose last
\* member is an array is that union, not an array of a union.
C6_ArrayOfWholeType ==
    /\ (tpc = "returned" /\ typeNode.k = "array") =>
          schema = [type |-> "array",
                    items |-> typeToJsonSchema(itemType(typeText))]
    /\ (/\ tpc = "returned"
        /\ typeNode.k = "union"
        /\ Len(typeNode.members) = 2
        /\ typeNode.members[1] \in NullNodes
        /\ typeNode.members[2].k = "array") =>
          schema = [nullable |-> TRUE] @@ schemaOf(typeNode.members[2])

\* C7: string, number and boolean map to {type: s}; null and undefined both
\* map to {type: 'null'}; any and unknown map to the empty schema {}.
C7_PrimitiveSchemas ==
    (tpc = "returned" /\ typeNode.k = "primitive") =>
        /\ typeNode.name = kwString => schema = [type |-> "string"]
        /\ typeNode.name = kwNumber => schema = [type |-> "number"]
        /\ typeNode.name = kwBoolean => schema = [type |-> "boolean"]
        /\ typeNode.name \in {kwNull, kwUndefined} => schema = [type |-> "null"]
        /\ typeNode.name \in {kwAny, kwUnknown} => schema = EmptyObject

\* C7's case: the call on "undefined" has returned {type: 'null'}
C7_Witness ==
    /\ tpc = "returned"
    /\ typeNode = Prim(kwUndefined)
    /\ schema = [type |-> "null"]

\* the members of a union that are null or undefined
nullMembers(node) == {i \in DOMAIN node.members : node.members[i] \in NullNodes}

\* C23: a union of primitives is collapsed to {...member, nullable: true}
\* exactly when it has two members, one of them null or undefined and the
\* other not; every other union is {oneOf: [...]} with one entry per member
C23_NullableIffTwoMembers ==
    (tpc = "returned" /\ typeNode \in FlatUnions) =>
        IF Len(typeNode.members) = 2 /\ Cardinality(nullMembers(typeNode)) = 1
        THEN /\ "nullable" \in DOMAIN schema
             /\ "oneOf" \notin DOMAIN schema
        ELSE /\ "nullable" \notin DOMAIN schema
             /\ "oneOf" \in DOMAIN schema
             /\ Len(schema.oneOf) = Len(typeNode.members)
             /\ Len(schema.oneOf) >= 2

\* C24: a ' | ' inside the parentheses of a function type does not split the
\* type: "(x: string | number) => void" is a function of one parameter x
\* whose schema is that of the union
C24_NestedBarDoesNotSplit ==
    (tpc = "returned" /\ typeNode \in UnionParamFunctions) =>
        /\ "oneOf" \notin DOMAIN schema
        /\ "parameters" \in DOMAIN schema
        /\ Len(schema.parameters) = 1
        /\ schema.parameters[1] =
              [name |-> <<"x">>, schema |-> schemaOf(typeNode.params[1].type)]

\* C25: a function whose parameter cb is itself a function has exactly one
\* parameter, cb, whose schema is that of the inner function, and 'returns'
\* is the schema of the outer return type
C25_CallbackIsOneParameter ==
    (tpc = "returned" /\ typeNode \in CallbackFunctions) =>
        /\ "parameters" \in DOMAIN schema
        /\ Len(schema.parameters) = 1
        /\ schema.parameters[1] =
              [name |-> <<"c", "b">>, schema |-> schemaOf(typeNode.params[1].type)]
        /\ schema.returns = schemaOf(typeNode.returns)

\* C26: an object literal with a member of a component type is classified by
\* its outer shape: it is an object with the properties comp and n, not a
\* component
C26_ComponentMemberIsObject ==
    (tpc = "returned" /\ typeNode \in ComponentMemberObjects) =>
        /\ schema.type = "object"
        /\ "tsType" \notin DOMAIN schema
        /\ "description" \notin DOMAIN schema
        /\ "properties" \in DOMAIN schema
        /\ DOMAIN schema.properties = {<<"c", "o", "m", "p">>, <<"n">>}

-----------------------------------------------------------------------------
(* The top-level statements of a module, as the compiler's syntax tree gives *)
(* them to the callback of ts.forEachChild(sourceFile, ...).                 *)

\* the bound of the statements of a module
MaxStatements == 3

\* node.modifiers is a set of keywords (empty when the node has none); a
\* variable statement has declarations, each a name that is an identifier or
\* a binding pattern; a function, class, enum or interface has a name, ""
\* when it has none; an export declaration has the elements of its named
\* export clause, each {name, propertyName} with propertyName "" when the
\* element has no 'as'; an export assignment has an expression, "" when the
\* expression is no identifier.
Statement(kind, modifiers, declarations, name, elements, expression, isExportEquals) ==
    [kind |-> kind, modifiers |-> modifiers, declarations |-> declarations,
     name |-> name, elements |-> elements, expression |-> expression,
     isExportEquals |-> isExportEquals]

Declaration(name) == [name |-> name, isIdentifier |-> TRUE]
Element(name, propertyName) ==
    [name |-> name, propertyName |-> propertyName, isTypeOnly |-> FALSE]
\* an element written with the 'type' keyword: export { type I }
TypeElement(name) == [name |-> name, propertyName |-> "", isTypeOnly |-> TRUE]

\* export const a = 1;
ExportConstA ==
    Statement("VariableStatement", {"export"}, <<Declaration("a")>>, "", <<>>, "", FALSE)
\* export const a = 1, c = 2;
ExportConstAC ==
    Statement("VariableStatement", {"export"},
              <<Declaration("a"), Declaration("c")>>, "", <<>>, "", FALSE)
\* export const App: React.FC<Props> = ...;
ExportConstApp ==
    Statement("VariableStatement", {"export"}, <<Declaration("App")>>, "", <<>>, "", FALSE)
\* const a = 1;
ConstA ==
    Statement("VariableStatement", {}, <<Declaration("a")>>, "", <<>>, "", FALSE)
\* export default function f() {}
ExportDefaultFunctionF ==
    Statement("FunctionDeclaration", {"export", "default"}, <<>>, "f", <<>>, "", FALSE)
\* export default function () {}
ExportDefaultFunction ==
    Statement("FunctionDeclaration", {"export", "default"}, <<>>, "", <<>>, "", FALSE)
\* export class C {}
ExportClassC ==
    Statement("ClassDeclaration", {"export"}, <<>>, "C", <<>>, "", FALSE)
\* export enum E {}
ExportEnumE ==
    Statement("EnumDeclaration", {"export"}, <<>>, "E", <<>>, "", FALSE)
\* export interface I {}
ExportInterfaceI ==
    Statement("InterfaceDeclaration", {"export"}, <<>>, "I", <<>>, "", FALSE)
\* export type T = string;
ExportTypeT ==
    Statement("TypeAliasDeclaration", {"export"}, <<>>, "T", <<>>, "", FALSE)
\* export { a as b };
ExportAAsB ==
    Statement("ExportDeclaration", {}, <<>>, "", <<Element("b", "a")>>, "", FALSE)
\* export { a, u };  where u is declared nowhere
ExportAU ==
    Statement("ExportDeclaration", {}, <<>>, "",
              <<Element("a", ""), Element("u", "")>>, "", FALSE)
\* export { type I };  where I is an interface
ExportTypeI ==
    Statement("ExportDeclaration", {}, <<>>, "", <<TypeElement("I")>>, "", FALSE)
\* export { type as x };  where type is a variable
ExportTypeAsX ==
    Statement("ExportDeclaration", {}, <<>>, "", <<Element("x", "type")>>, "", FALSE)
\* export default 42;
ExportDefaultLiteral ==
    Statement("ExportAssignment", {}, <<>>, "", <<>>, "", FALSE)
\* export default a;
ExportDefaultA ==
    Statement("ExportAssignment", {}, <<>>, "", <<>>, "a", FALSE)
\* export = a;
ExportEqualsA ==
    Statement("ExportAssignment", {}, <<>>, "", <<>>, "a", TRUE)

Statements ==
    {ExportConstA, ExportConstAC, ConstA, ExportDefaultFunctionF,
     ExportDefaultFunction, ExportClassC, ExportEnumE, ExportInterfaceI,
     ExportTypeT, ExportAAsB, ExportAU, ExportTypeI, ExportTypeAsX,
     ExportDefaultLiteral, ExportDefaultA, ExportEqualsA, ExportConstApp}

-----------------------------------------------------------------------------
(* api.mjs: the names of the exports.                                        *)

\* the elements of a list
Range(list) == {list[i] : i \in DOMAIN list}

\* pushName without the test of includes
pushName_always(names, name) == Append(names, name)

\* if (!exportNames.includes(name)) exportNames.push(name)
pushName(names, name) ==
    IF name \in Range(names) THEN names ELSE Append(names, name)

\* node.exportClause.elements.forEach(...)
RECURSIVE visitElements(_, _)
visitElements(elements, names) ==
    IF elements = <<>> THEN names
    ELSE visitElements(Tail(elements),
                       IF elements[1].propertyName = "type" THEN names
                       ELSE pushName(names, elements[1].name))

\* node.declarationList.declarations.forEach(...)
RECURSIVE visitDeclarations(_, _)
visitDeclarations(declarations, names) ==
    IF declarations = <<>> THEN names
    ELSE visitDeclarations(Tail(declarations),
                           IF declarations[1].isIdentifier
                           THEN pushName(names, declarations[1].name)
                           ELSE names)

\* the callback of ts.forEachChild(sourceFile, ...), with exportNames = names
visitExportNames(node, names) ==
    IF node.kind = "ExportDeclaration"
    THEN visitElements(node.elements, names)
    ELSE IF /\ node.kind \in {"VariableStatement", "FunctionDeclaration",
                              "ClassDeclaration", "EnumDeclaration"}
            /\ "export" \in node.modifiers
    THEN IF "type" \in node.modifiers THEN names
         ELSE IF node.kind = "VariableStatement"
         THEN visitDeclarations(node.declarations, names)
         ELSE IF node.name # "" THEN pushName(names, node.name)
         ELSE names
    ELSE IF /\ node.kind \in {"FunctionDeclaration", "ClassDeclaration"}
            /\ "export" \in node.modifiers
            /\ "default" \in node.modifiers
    THEN pushName(names, "default")
    ELSE IF node.kind = "ExportAssignment" /\ ~node.isExportEquals
    THEN pushName(names, "default")
    ELSE names

-----------------------------------------------------------------------------
(* part_000: the props of a React component, expanded by getDetailedType.    *)

\* the members of an interface: a property signature has a name, a question
\* token or none, and the text of its type; a method signature has a name,
\* the texts of its parameters and the text of its return type (<<>> when it
\* has none)
PropertySignature(name, optional, type) ==
    [kind |-> "PropertySignature", name |-> name, questionToken |-> optional,
     type |-> type]
MethodSignature(name, params, type) ==
    [kind |-> "MethodSignature", name |-> name, parameters |-> params,
     type |-> type]

InterfaceDeclaration(name, members) ==
    [kind |-> "InterfaceDeclaration", name |-> name, members |-> members]
TypeAliasDeclaration(name, type) ==
    [kind |-> "TypeAliasDeclaration", name |-> name, type |-> type]

\* the line expandInterface adds to result for one member
memberLine(member) ==
    IF member.kind = "PropertySignature" /\ member.type # <<>>
    THEN <<" ", " ">> \o member.name \o <<":", " ">> \o member.type \o <<";", "\n">>
    ELSE IF member.kind = "MethodSignature"
    THEN <<" ", " ">> \o member.name \o <<"(">>
         \o join(member.parameters, <<",", " ">>) \o <<")", ":", " ">>
         \o (IF member.type # <<>> THEN member.type ELSE kwAny) \o <<";", "\n">>
    ELSE <<>>

RECURSIVE memberLines(_)
memberLines(members) ==
    IF members = <<>> THEN <<>>
    ELSE memberLine(members[1]) \o memberLines(Tail(members))

expandInterface(interfaceDecl) ==
    <<"{", "\n">> \o memberLines(interfaceDecl.members) \o <<"}">>

expandTypeAlias(typeAliasDecl) ==
    IF typeAliasDecl.type # <<>> THEN typeAliasDecl.type ELSE kwUnknown

\* typeString.match(/FC<([^>]+)>/) or, with prefix 'FunctionComponent<', the
\* other expression, tried at the occurrences of the prefix from position
\* from on: the prefix, one or more characters that are not '>', and a '>'
RECURSIVE componentMatch(_, _, _)
componentMatch(s, prefix, from) ==
    LET at == indexOf(s, prefix, from)
        start == at + Len(prefix)
        gt == firstIn(s, {">"}, start)
    IN  IF at = 0 THEN NoMatch
        ELSE IF gt > start THEN [found |-> TRUE, props |-> SubSeq(s, start, gt - 1)]
        ELSE componentMatch(s, prefix, at + 1)

\* the propsType the walk over the declarations of the source file leaves:
\* that of the last interface or type alias of the name; <<>> stands for the
\* null it starts with (like the empty text, it is not truthy)
RECURSIVE findPropsType(_, _, _)
findPropsType(declarations, propsTypeName, propsType) ==
    IF declarations = <<>> THEN propsType
    ELSE findPropsType(
            Tail(declarations), propsTypeName,
            IF declarations[1].name # propsTypeName THEN propsType
            ELSE IF declarations[1].kind = "InterfaceDeclaration"
            THEN expandInterface(declarations[1])
            ELSE expandTypeAlias(declarations[1]))

\* getDetailedType after typeChecker.typeToString: the text of a component
\* type whose props type is declared in the source file has the declaration
\* in the place of the name
expandProps(typeString, declarations) ==
    IF includes(typeString, reactFC) \/ includes(typeString, functionComponent)
    THEN LET fc == componentMatch(typeString, <<"F", "C", "<">>, 1)
             m == IF fc.found THEN fc
                  ELSE componentMatch(typeString, functionComponent, 1)
             propsType == IF m.found
                          THEN findPropsType(declarations, trim(m.props), <<>>)
                          ELSE <<>>
         IN  IF propsType # <<>>
             THEN reactFC \o propsType \o <<">">>
             ELSE typeString
    ELSE typeString

-----------------------------------------------------------------------------
(* part_000: the {name, type} entries of the exports.                        *)

\* the name of the props type of a component
propsName == <<"P", "r", "o", "p", "s">>

\* the value bindings the type checker knows in the module: the variables a,
\* c and type, the function f, the class C, the enum E and the component App
\* of type React.FC<Props>, Props being imported; I and T are types, and u is
\* declared nowhere
Symbols == {"a", "c", "type", "f", "C", "E", "App"}

\* the interfaces and type aliases the walk of getDetailedType meets in the
\* source file: I and T, and no Props
ModuleDeclarations ==
    <<InterfaceDeclaration(<<"I">>, <<PropertySignature(<<"a">>, FALSE, kwString)>>),
      TypeAliasDeclaration(<<"T">>, kwString)>>

\* typeChecker.typeToString of the type of a binding
typeOfSymbol(identifier) ==
    CASE identifier = "a" -> kwString
      [] identifier = "c" -> kwNumber
      [] identifier = "type" -> kwBoolean
      [] identifier = "f" -> typeToString(Fn(<<>>, Prim(kwVoid), FALSE))
      [] identifier = "App" -> reactFC \o propsName \o <<">">>
      [] OTHER -> <<"t", "y", "p", "e", "o", "f", " ">> \o <<identifier>>

\* the binding an element of a named export clause is an alias of: the
\* propertyName of 'propertyName as name', the name otherwise
aliasedSymbol(element) ==
    IF element.propertyName # "" THEN element.propertyName ELSE element.name

\* getDetailedType(symbol, location) for a symbol of the module; the type of
\* an alias is the type of the value it resolves to, and any when it resolves
\* to no value
getDetailedType(identifier) ==
    expandProps(IF identifier \in Symbols THEN typeOfSymbol(identifier) ELSE kwAny,
                ModuleDeclarations)

\* exports.push({ name, type }) when the identifier has a symbol
pushExport(list, identifier, name) ==
    IF identifier \in Symbols
    THEN Append(list, [name |-> name, type |-> getDetailedType(identifier)])
    ELSE list

\* the export specifier is a declaration and always has a symbol, an alias
RECURSIVE exportElements(_, _)
exportElements(elements, list) ==
    IF elements = <<>> THEN list
    ELSE exportElements(Tail(elements),
                        Append(list,
                               [name |-> elements[1].name,
                                type |-> getDetailedType(aliasedSymbol(elements[1]))]))

RECURSIVE exportDeclarations(_, _)
exportDeclarations(declarations, list) ==
    IF declarations = <<>> THEN list
    ELSE exportDeclarations(Tail(declarations),
                            IF declarations[1].isIdentifier
                            THEN pushExport(list, declarations[1].name,
                                            declarations[1].name)
                            ELSE list)

\* the callback of ts.forEachChild(sourceFile, ...), with exports = list
visitExports(node, list) ==
    IF node.kind = "ExportDeclaration"
    THEN exportElements(node.elements, list)
    ELSE IF node.kind = "ExportAssignment" /\ ~node.isExportEquals
    THEN pushExport(list, node.expression, "default")
    ELSE IF /\ node.kind \in {"VariableStatement", "FunctionDeclaration",
                              "ClassDeclaration"}
            /\ "export" \in node.modifiers
    THEN IF node.kind = "VariableStatement"
         THEN exportDeclarations(node.declarations, list)
         ELSE IF node.name # "" THEN pushExport(list, node.name, node.name)
         ELSE list
    ELSE list

-----------------------------------------------------------------------------
(* fetchTypes: the manifest, the main file, the schemas, the document.       *)

\* JavaScript's null, for the content or the error of a loader's result
Null == "null"

\* what a loader gives: {content, error: null}, {content: null, error}, or,
\* threw, an exception (a loader handed to api.mjs may reject)
Loaded(content) == [content |-> content, error |-> Null, threw |-> FALSE]
LoadError(error) == [content |-> Null, error |-> error, threw |-> FALSE]
LoadThrew(error) == [content |-> Null, error |-> error, threw |-> TRUE]

\* the texts of package.json: with a main field, without one, and not JSON
ManifestWithMain == "{\"name\": \"m\", \"main\": \"index.ts\"}"
ManifestWithoutMain == "{\"name\": \"m\"}"
ManifestNotJson == "{name"

\* the paths fetchTypes is called with: a local directory, a local module
\* file, a repository root and a file of a repository
LocalDirectory == "pkg"
LocalFile == "pkg/index.ts"
GithubRepository == "https://github.com/o/r"
GithubFile == "https://github.com/o/r/blob/main/index.ts"

ProvidedPaths == {LocalDirectory, LocalFile, GithubRepository, GithubFile}

\* path.startsWith('https://github.com/')
isGithubUrl(path) == path \in {GithubRepository, GithubFile}

\* the path names a module file, not a directory or a repository root
isModuleFile(path) == path \in {LocalFile, GithubFile}

\* getFileLoader(filePath, {OCTOKIT_API}): the loader the CLI hands to api.mjs
getFileLoader(filePath, OCTOKIT_API) ==
    IF isGithubUrl(filePath)
    THEN IF OCTOKIT_API THEN "loadOctokitFile" ELSE "loadGithubFile"
    ELSE "loadLocalFile"

\* what the read or the request under a loader does: it gives the text, it
\* gives a response that is not ok (fetch only), or it fails with an error
ReadOk(text) == [kind |-> "ok", text |-> text]
ResponseNotOk == [kind |-> "notOk", statusText |-> "Not Found"]
ReadFailed == [kind |-> "failed", message |-> "ENOENT"]

\* part_003's loadLocalFile: fs.readFile in a try/catch
loadLocalFile(read) ==
    IF read.kind = "ok" THEN Loaded(read.text) ELSE LoadError(read.message)

\* part_003's loadGithubFile: fetch with no try/catch around it
loadGithubFile(read) ==
    IF read.kind = "failed" THEN LoadThrew(read.message)
    ELSE IF read.kind = "notOk" THEN LoadError("Failed to fetch: Not Found")
    ELSE Loaded(read.text)

\* octokit-loader.mjs's loadOctokitFile: getContent with no try/catch
loadOctokitFile(read) ==
    IF read.kind = "failed" THEN LoadThrew(read.message) ELSE Loaded(read.text)

\* part_000's own loadGithubFile: the request, by Octokit or by fetch, in a
\* try/catch
loadGithubFileCaught(read) ==
    IF read.kind = "failed" THEN LoadError(read.message)
    ELSE IF read.kind = "notOk" THEN LoadError("Failed to fetch: Not Found")
    ELSE Loaded(read.text)

\* await loadFile(path), the read under it doing what read says
callLoader(loader, read) ==
    CASE loader = "loadLocalFile" -> loadLocalFile(read)
      [] loader = "loadGithubFile" -> loadGithubFile(read)
      [] loader = "loadOctokitFile" -> loadOctokitFile(read)
      [] loader = "loadGithubFileCaught" -> loadGithubFileCaught(read)

\* what the read under a loader can do for a path with one of the texts
Reads(loader, texts) ==
    {ReadOk(text) : text \in texts} \union {ReadFailed}
        \union IF loader \in {"loadGithubFile", "loadGithubFileCaught"}
               THEN {ResponseNotOk} ELSE {}

\* the texts package.json can have under providedPath: none when the path
\* names a module file, which has no package.json under it
ManifestTexts(path) ==
    IF isModuleFile(path) THEN {}
    ELSE {ManifestWithMain, ManifestWithoutMain, ManifestNotJson}

ManifestResults ==
    {callLoader(loadFile, read) : read \in Reads(loadFile, ManifestTexts(providedPath))}

ModuleResults ==
    {callLoader(loadFile, read) : read \in Reads(loadFile, {"module"})}

\* JSON.parse(content) of the texts above: the value, or the exception
JSONparse(content) ==
    CASE content = ManifestWithMain ->
            [threw |-> FALSE, value |-> [name |-> "m", main |-> "index.ts"]]
      [] content = ManifestWithoutMain ->
            [threw |-> FALSE, value |-> [name |-> "m"]]
      [] OTHER ->
            [threw |-> TRUE, value |-> Undefined]

\* resolveMainFileError without the test of the main field
resolveMainFileError_noMainCheck(result) ==
    IF result.error # Null
    THEN <<"Error reading package.json from directory: ", result.error>>
    ELSE IF JSONparse(result.content).threw
    THEN <<"Unexpected token in JSON">>
    ELSE <<>>

\* what resolveMainFile throws on the result of loadFile(packageJsonPath): the
\* message of the error, or <<>> when it returns the path of the main file
resolveMainFileError(result) ==
    IF result.error # Null
    THEN <<"Error reading package.json from directory: ", result.error>>
    ELSE IF JSONparse(result.content).threw
    THEN <<"Unexpected token in JSON">>
    ELSE IF "main" \notin DOMAIN JSONparse(result.content).value
    THEN <<"No \"main\" field found in package.json">>
    ELSE <<>>

\* whether fetchTypes has a try/catch around its body: part_000's has, and
\* returns {error: error.message}; api.mjs's has none, and its promise rejects
fetchTypesCatches(v) == v = "part_000"

\* an exception reaches fetchTypes
Thrown(message) ==
    /\ outcome' = IF fetchTypesCatches(version)
                  THEN [kind |-> "returned", value |-> [error |-> message]]
                  ELSE [kind |-> "rejected", error |-> message]
    /\ fpc' = "done"

\* a value is returned to the caller of fetchTypes
Returned(value) ==
    /\ outcome' = [kind |-> "returned", value |-> value]
    /\ fpc' = "done"

\* path.join(os.tmpdir(), `temp-${Date.now()}.tsx`)
tempFilePath(timestamp) == <<"temp-", timestamp, ".tsx">>

\* fs.promises.writeFile(path, data), when it has resolved
writeFile(directory, path, data) ==
    [p \in DOMAIN directory \cup {path} |->
        IF p = path THEN data ELSE directory[p]]

\* rimraf(path), when it has resolved
rimraf(directory, path) ==
    [p \in DOMAIN directory \ {path} |-> directory[p]]

\* the prefix of a reference to a definition
refPrefix ==
    <<"#", "/", "d", "e", "f", "i", "n", "i", "t", "i", "o", "n", "s", "/">>

\* the keys of a schema object whose values are strings; the values of every
\* other key are objects
StringKeys == {"type", "$ref"}

\* obj.$ref && typeof obj.$ref === 'string' &&
\* obj.$ref.startsWith('#/definitions/')
isDefinitionRef(obj) ==
    /\ "$ref" \in DOMAIN obj
    /\ obj["$ref"] # <<>>
    /\ startsWith(obj["$ref"], refPrefix)

\* obj.$ref.replace('#/definitions/', '') of such a reference
refName(obj) == SubSeq(obj["$ref"], Len(refPrefix) + 1, Len(obj["$ref"]))

\* resolveRefs(obj, definitions) for an object: a reference to a definition
\* there is gives a copy of that definition, as it is; any other object has
\* each of its values resolved (a string is returned as it is)
RECURSIVE resolveRefs(_, _)
resolveRefs(obj, definitions) ==
    IF isDefinitionRef(obj) /\ refName(obj) \in DOMAIN definitions
    THEN definitions[refName(obj)]
    ELSE [key \in DOMAIN obj |->
             IF key \in StringKeys THEN obj[key]
             ELSE resolveRefs(obj[key], definitions)]

\* processedDefinitions[key] = resolveRefs(copy of value, schema.definitions)
processDefinitions(definitions) ==
    [key \in DOMAIN definitions |-> resolveRefs(definitions[key], definitions)]

\* the definitions ts-json-schema-generator makes of the temp file: one with
\* the namedArgs of a function, one without
DefinitionWithArgs ==
    [type |-> "object",
     properties |->
        [namedArgs |-> [type |-> "object",
                        properties |-> [x |-> [type |-> "number"]]]]]
DefinitionPlain == [type |-> "string"]

GeneratorResults ==
    {[threw |-> FALSE,
      definitions |-> ("f" :> DefinitionWithArgs) @@ ("a" :> DefinitionPlain)],
     [threw |-> FALSE,
      definitions |-> ("a" :> DefinitionWithArgs) @@ ("b" :> DefinitionPlain)
                      @@ ("default" :> DefinitionWithArgs)],
     [threw |-> TRUE, definitions |-> EmptyObject]}

\* the entry of result for one processed definition: the first property of
\* properties.namedArgs.properties, or an empty object schema
definitionSchema(value) ==
    LET namedArgs == get(get(value, "properties"), "namedArgs")
        properties == get(namedArgs, "properties")
    IN  IF properties # Undefined /\ DOMAIN properties # {}
        THEN properties[CHOOSE key \in DOMAIN properties : TRUE]
        ELSE [type |-> "object", properties |-> EmptyObject]

\* the document: {"$schema", type: "object", properties}
Document(properties) ==
    ("$schema" :> "http://json-schema.org/draft-07/schema#")
    @@ [type |-> "object", properties |-> properties]

\* api.mjs: exports[name] = allSchemas[name] for each name of exportNames
exportsOfNames(names, schemas) ==
    [name \in Range(names) |-> get(schemas, name)]

\* part_000: schema.properties[exp.name] = typeToJsonSchema(exp.type), a later
\* entry of the same name replacing an earlier one
exportsOfEntries(list) ==
    LET last(n) == CHOOSE i \in DOMAIN list :
                       /\ list[i].name = n
                       /\ \A j \in DOMAIN list : list[j].name = n => j <= i
    IN  [name \in {list[i].name : i \in DOMAIN list} |->
            typeToJsonSchema(list[last(name)].type)]

NoCall ==
    /\ typeNode = Undefined
    /\ typeText = <<>>
    /\ schema = Undefined
    /\ tpc = "idle"

Init ==
    /\ NoCall
    /\ version \in {"api.mjs", "part_000"}
    /\ providedPath \in ProvidedPaths
    /\ \E OCTOKIT_API \in BOOLEAN :
          loadFile = IF version = "api.mjs"
                     THEN getFileLoader(providedPath, OCTOKIT_API)
                     ELSE IF isGithubUrl(providedPath) THEN "loadGithubFileCaught"
                     ELSE "loadLocalFile"
    /\ fpc = "start"
    /\ loaded = <<>>
    /\ manifest = Undefined
    /\ moduleFile = Undefined
    /\ allSchemas = Undefined
    /\ sourceFile = <<>>
    /\ exportNames = <<>>
    /\ exports = <<>>
    /\ outcome = [kind |-> "pending"]
    /\ NoGenerator

\* resolveMainFile up to its await: loadFile(packageJsonPath)
LoadPackageJson ==
    /\ fpc = "start"
    /\ \E result \in ManifestResults :
          /\ loaded' = Append(loaded, "package.json")
          /\ manifest' = result
          /\ IF result.threw
             THEN Thrown(<<result.error>>)
             ELSE fpc' = "manifest" /\ UNCHANGED outcome
    /\ UNCHANGED <<schemaVars, generatorVars, callVars, moduleFile, allSchemas, sourceFile,
                   exportNames, exports>>

\* resolveMainFile after its await: the error, JSON.parse, the main field
ResolveMainFile ==
    /\ fpc = "manifest"
    /\ IF resolveMainFileError(manifest) # <<>>
       THEN Thrown(resolveMainFileError(manifest))
       ELSE fpc' = "resolved" /\ UNCHANGED outcome
    /\ UNCHANGED <<schemaVars, generatorVars, callVars, loaded, manifest, moduleFile, allSchemas,
                   sourceFile, exportNames, exports>>

\* getExportsSchema up to its await: loadFile(inputFile)
LoadModule ==
    /\ fpc = "resolved"
    /\ \E result \in ModuleResults :
          /\ loaded' = Append(loaded, "main")
          /\ moduleFile' = result
          /\ IF result.threw
             THEN Thrown(<<result.error>>)
             ELSE fpc' = "module" /\ UNCHANGED outcome
    /\ UNCHANGED <<schemaVars, generatorVars, callVars, manifest, allSchemas, sourceFile,
                   exportNames, exports>>

\* api.mjs, getExportsSchema after its await: the load error is thrown; the
\* temp file is written, the generator makes the definitions or throws, the
\* temp file is removed when it did not throw, the references of the
\* definitions are resolved and allSchemas is made of them
GenerateSchemas ==
    /\ fpc = "module"
    /\ version = "api.mjs"
    /\ IF moduleFile.error # Null
       THEN /\ Thrown(<<"File load error: ", moduleFile.error>>)
            /\ UNCHANGED <<allSchemas, tmpdir>>
       ELSE \E generated \in GeneratorResults :
               IF generated.threw
               THEN /\ Thrown(<<"generator error">>)
                    /\ tmpdir' = writeFile(tmpdir, tempFilePath(now), "main")
                    /\ UNCHANGED allSchemas
               ELSE /\ allSchemas' =
                          LET processed == processDefinitions(generated.definitions)
                          IN  [key \in DOMAIN processed |->
                                  definitionSchema(processed[key])]
                    /\ tmpdir' = rimraf(writeFile(tmpdir, tempFilePath(now), "main"),
                                        tempFilePath(now))
                    /\ fpc' = "walk"
                    /\ UNCHANGED outcome
    /\ UNCHANGED <<schemaVars, now, calls, refVars, callVars, loaded, manifest,
                   moduleFile, sourceFile, exportNames, exports>>

\* part_000, getExportsSchema after its await: the load error is returned as
\* {error}; so is a source file the program does not find
CreateProgram ==
    /\ fpc = "module"
    /\ version = "part_000"
    /\ IF moduleFile.error # Null
       THEN Returned([error |-> <<moduleFile.error>>])
       ELSE \E found \in BOOLEAN :
               IF found
               THEN fpc' = "walk" /\ UNCHANGED outcome
               ELSE Returned([error |-> <<"Source file not found">>])
    /\ UNCHANGED <<schemaVars, generatorVars, callVars, loaded, manifest, moduleFile, allSchemas,
                   sourceFile, exportNames, exports>>

\* api.mjs: ts.forEachChild calls the callback with the next statement
VisitExportNames ==
    /\ fpc = "walk"
    /\ version = "api.mjs"
    /\ Len(sourceFile) < MaxStatements
    /\ \E node \in Statements :
          /\ sourceFile' = Append(sourceFile, node)
          /\ exportNames' = visitExportNames(node, exportNames)
    /\ UNCHANGED <<schemaVars, generatorVars, callVars, fpc, loaded, manifest, moduleFile,
                   allSchemas, exports, outcome>>

\* part_000: ts.forEachChild calls the callback with the next statement
VisitExports ==
    /\ fpc = "walk"
    /\ version = "part_000"
    /\ Len(sourceFile) < MaxStatements
    /\ \E node \in Statements :
          /\ sourceFile' = Append(sourceFile, node)
          /\ exports' = visitExports(node, exports)
    /\ UNCHANGED <<schemaVars, generatorVars, callVars, fpc, loaded, manifest, moduleFile,
                   allSchemas, exportNames, outcome>>

\* the source file has no more statements: the document is returned
ReturnSchema ==
    /\ fpc = "walk"
    /\ Returned(Document(IF version = "api.mjs"
                         THEN exportsOfNames(exportNames, allSchemas)
                         ELSE exportsOfEntries(exports)))
    /\ UNCHANGED <<schemaVars, generatorVars, callVars, loaded, manifest, moduleFile, allSchemas,
                   sourceFile, exportNames, exports>>

Next ==
    \/ LoadPackageJson
    \/ ResolveMainFile
    \/ LoadModule
    \/ GenerateSchemas
    \/ CreateProgram
    \/ VisitExportNames
    \/ VisitExports
    \/ ReturnSchema

Spec == Init /\ [][Next]_vars

-----------------------------------------------------------------------------
(* The claims about the export walk and about fetchTypes.                    *)

\* the names the walk has enumerated, in order
enumeratedNames ==
    IF version = "api.mjs"
    THEN exportNames
    ELSE [i \in DOMAIN exports |-> exports[i].name]

\* C2: for the module "export const a = 1; export default function f(){};
\* export { a as b };" the enumerated export names are exactly [a, default, b]
\* in that order: the default-exported function contributes 'default', not f
C2_ExportNamesOfExample ==
    sourceFile = <<ExportConstA, ExportDefaultFunctionF, ExportAAsB>>
        => enumeratedNames = <<"a", "default", "b">>

\* the manifest was loaded and parsed, and has no main field
manifestLacksMain ==
    /\ manifest # Undefined
    /\ ~manifest.threw
    /\ manifest.error = Null
    /\ ~JSONparse(manifest.content).threw
    /\ "main" \notin DOMAIN JSONparse(manifest.content).value

\* the error the caller of fetchTypes is given: the error of the returned
\* {error}, or the message of the exception the promise is rejected with
errorGiven ==
    IF outcome.kind = "rejected" THEN outcome.error
    ELSE IF outcome.kind = "returned" /\ "error" \in DOMAIN outcome.value
    THEN outcome.value.error
    ELSE <<>>

\* a schema document was returned
documentReturned ==
    /\ outcome.kind = "returned"
    /\ "properties" \in DOMAIN outcome.value

failurePath ==
    \/ /\ manifest # Undefined
       /\ ~manifest.threw
       /\ \/ manifest.error # Null
          \/ JSONparse(manifest.content).threw
    \/ /\ moduleFile # Undefined
       /\ ~moduleFile.threw
       /\ \/ moduleFile.error # Null
          \/ version = "api.mjs" /\ fpc = "done" /\ allSchemas = Undefined

\* C10: on every failure path the caller of fetchTypes receives a structured
\* error value: fetchTypes never rejects and never returns a document then
C10_FailuresAreReturnedValues ==
    (failurePath /\ fpc = "done") =>
        /\ outcome.kind = "returned"
        /\ "error" \in DOMAIN outcome.value
        /\ "properties" \notin DOMAIN outcome.value

\* the names a statement contributes when nothing was enumerated before it
contributed(node) == visitExportNames(node, <<>>)

\* the names the statements of a list contribute, in source order, repeated
\* as often as they are contributed
RECURSIVE allContributed(_)
allContributed(statements) ==
    IF statements = <<>> THEN <<>>
    ELSE contributed(statements[1]) \o allContributed(Tail(statements))

\* a list of names without the later occurrences of each name
RECURSIVE firstOccurrences(_, _)
firstOccurrences(names, seen) ==
    IF names = <<>> THEN <<>>
    ELSE IF names[1] \in seen THEN firstOccurrences(Tail(names), seen)
    ELSE <<names[1]>> \o firstOccurrences(Tail(names), seen \union {names[1]})

\* no name is at two places of the list
noDuplicates(names) ==
    \A i, j \in DOMAIN names : names[i] = names[j] => i = j

\* C11: in api.mjs, after any statements, exportNames has no duplicate and is
\* the names the statements contribute, each at the place of its first
\* occurrence in source order
C11_NamesUniqueInFirstOccurrenceOrder ==
    version = "api.mjs" =>
        /\ noDuplicates(exportNames)
        /\ exportNames = firstOccurrences(allContributed(sourceFile), {})

\* C11's case: a and u were contributed twice, by a declaration and by a
\* clause, and are enumerated once, where they first occurred
C11_Witness ==
    /\ version = "api.mjs"
    /\ sourceFile = <<ExportAU, ExportConstAC, ExportAU>>
    /\ exportNames = <<"a", "u", "c">>

\* a default export: a function or class declaration with the export and
\* default modifiers, or an 'export default' expression statement
isDefaultExport(node) ==
    \/ /\ node.kind \in {"FunctionDeclaration", "ClassDeclaration"}
       /\ {"export", "default"} \subseteq node.modifiers
    \/ node.kind = "ExportAssignment" /\ ~node.isExportEquals

\* how often a name is in a list
occurrences(names, name) == Cardinality({i \in DOMAIN names : names[i] = name})

\* C12: 'default' is among the enumerated names exactly once if the statements
\* hold at least one default export, and not at all otherwise
C12_DefaultOnceIffDefaultExport ==
    version = "api.mjs" =>
        occurrences(exportNames, "default") =
            IF \E i \in DOMAIN sourceFile : isDefaultExport(sourceFile[i])
            THEN 1 ELSE 0

\* the interfaces and type aliases of the module
TypeSymbols == {"I", "T"}

\* the elements of the named export clauses visited so far
clauseElements ==
    UNION {Range(sourceFile[i].elements) : i \in DOMAIN sourceFile}

\* the element re-exports a type-only binding: it is written with 'type', or
\* it names an interface or a type alias
isTypeOnlyExport(element) ==
    element.isTypeOnly \/ aliasedSymbol(element) \in TypeSymbols

\* the element exports a value binding
isValueExport(element) ==
    ~element.isTypeOnly /\ aliasedSymbol(element) \in Symbols

\* C13: of the elements of named export clauses, those that re-export a
\* type-only binding are skipped and those that export a value binding are
\* enumerated, whatever the identifiers are
C13_TypeOnlyElementsSkipped ==
    version = "api.mjs" =>
        \A element \in clauseElements :
            /\ isTypeOnlyExport(element) => element.name \notin Range(exportNames)
            /\ isValueExport(element) => element.name \in Range(exportNames)

\* the identifiers a declaration statement declares
declaredNames(node) ==
    IF node.kind = "VariableStatement"
    THEN {node.declarations[i].name : i \in DOMAIN node.declarations}
    ELSE IF node.name # "" THEN {node.name}
    ELSE {}

\* a variable, function, class, interface, type-alias or enum declaration
\* with an export modifier and no default modifier
isExportedDeclaration(node) ==
    /\ node.kind \in {"VariableStatement", "FunctionDeclaration",
                      "ClassDeclaration", "InterfaceDeclaration",
                      "TypeAliasDeclaration", "EnumDeclaration"}
    /\ "export" \in node.modifiers
    /\ "default" \notin node.modifiers

\* C14: every exported declaration without default modifier contributes each
\* identifier it declares to the enumerated names
C14_ExportedDeclarationsContribute ==
    version = "api.mjs" =>
        \A i \in DOMAIN sourceFile :
            isExportedDeclaration(sourceFile[i]) =>
                declaredNames(sourceFile[i]) \subseteq Range(exportNames)

\* the schema of a binding of the module under its own name: the entry of
\* allSchemas in api.mjs, the fragment of its printed type in part_000
schemaOfBinding(identifier) ==
    IF version = "api.mjs"
    THEN get(allSchemas, identifier)
    ELSE typeToJsonSchema(getDetailedType(identifier))

\* C15: when the module holds 'export { a as b }', the fragment of the
\* document under properties.b is the schema of the original binding a
C15_AliasHasSchemaOfOriginal ==
    (documentReturned /\ ExportAAsB \in Range(sourceFile)) =>
        /\ "b" \in DOMAIN outcome.value.properties
        /\ outcome.value.properties["b"] = schemaOfBinding("a")

\* a type or schema was found for an enumerated name: api.mjs finds it in
\* allSchemas; part_000 enumerates a name only with the type of its symbol
schemaFound(name) ==
    IF version = "api.mjs" THEN name \in DOMAIN allSchemas ELSE TRUE

\* C16: the properties of the returned document have a key n exactly for the
\* enumerated names n for which a schema was found, none with an undefined
\* value, and the document has '$schema' and type 'object'
C16_PropertiesIffSchemaFound ==
    documentReturned =>
        /\ "$schema" \in DOMAIN outcome.value
        /\ outcome.value.type = "object"
        /\ DOMAIN outcome.value.properties =
              {name \in Range(enumeratedNames) : schemaFound(name)}
        /\ \A name \in DOMAIN outcome.value.properties :
              outcome.value.properties[name] # Undefined

\* what the loader has given so far, for package.json and for the main file
loaderResults == {manifest, moduleFile} \ {Undefined}

\* C17: whatever the read or the request under it does, each of the three
\* loaders handed to the core returns a value with either content and a null
\* error, or null content and an error; none throws or rejects
C17_LoadersReturnContentOrError ==
    loadFile \in {"loadLocalFile", "loadGithubFile", "loadOctokitFile"} =>
        \A result \in loaderResults :
            /\ ~result.threw
            /\ (result.content # Null) # (result.error # Null)

\* C18: when providedPath names a module file, fetchTypes never loads a
\* manifest, and when it is done it has loaded that file as the module
C18_ModuleFileLoadedWithoutManifest ==
    isModuleFile(providedPath) =>
        /\ "package.json" \notin Range(loaded)
        /\ fpc = "done" => loaded = <<"main">>

\* the text the type checker prints for the component App
appText == typeOfSymbol("App")

\* C22: a component whose props type name is that of no interface or type
\* alias of the file is still an export: its entry keeps the text of the
\* type unchanged, fetchTypes returns a document and not an error, and the
\* component's fragment is {type: 'object', description, tsType: the text}
C22_UnresolvedPropsKeepTypeText ==
    (version = "part_000" /\ ExportConstApp \in Range(sourceFile)) =>
        /\ \E i \in DOMAIN exports :
              exports[i] = [name |-> "App", type |-> appText]
        /\ fpc = "done" =>
              /\ documentReturned
              /\ outcome.value.properties["App"] =
                    [type |-> "object",
                     description |-> reactDescription \o appText,
                     tsType |-> appText]

\* C22's case: part_000 has returned the document of a module that exports
\* the component
C22_Witness ==
    /\ version = "part_000"
    /\ ExportConstApp \in Range(sourceFile)
    /\ \A i \in DOMAIN ModuleDeclarations : ModuleDeclarations[i].name # propsName
    /\ fpc = "done"
    /\ documentReturned

-----------------------------------------------------------------------------
(* A component whose props type is a local interface: getDetailedType, then  *)
(* typeToJsonSchema.                                                         *)

\* the bound of the signatures of an interface
MaxSignatures == 2

\* what the type checker prints for the component
ComponentTexts ==
    {reactFC \o propsName \o <<">">>,
     <<"R", "e", "a", "c", "t", ".">> \o functionComponent \o propsName \o <<">">>}

Signatures ==
    {PropertySignature(<<name>>, optional, type) :
        name \in {"a", "b"}, optional \in BOOLEAN, type \in {kwString, kwNumber}}
    \union
    {MethodSignature(<<"m">>, params, kwString) :
        params \in {<<>>, <<<<"p", ":", " ">> \o kwNumber>>}}

\* the member lists of at most n signatures of different names
SignatureLists(n) ==
    UNION {{members \in [1..k -> Signatures] :
               \A i, j \in 1..k : members[i].name = members[j].name => i = j} :
           k \in 1..n}

Components ==
    {[k |-> "component", text |-> text,
      declarations |-> <<InterfaceDeclaration(propsName, members)>>] :
        text \in ComponentTexts, members \in SignatureLists(MaxSignatures)}

\* the types of the members of props written in place: a primitive, two
\* function types and a generic instantiation
InlineMemberTypes ==
    {Prim(kwString),
     Fn(<<>>, Prim(kwVoid), FALSE),
     Gen(nameArray, <<Prim(kwString)>>)}

\* props written in place, as an object literal
InlineProps ==
    UNION {{Obj(ms, st) : ms \in MemberLists(n, InlineMemberTypes),
                          st \in {"semi", "multi"}} : n \in 1..MaxMembers}

\* components whose props are written in place, in a source file with or
\* without an interface Props
InlineComponents ==
    {[k |-> "inline", text |-> typeToString(Gen(name, <<props>>)),
      props |-> props, declarations |-> declarations] :
        name \in {nameFC, nameFunctionComponent},
        props \in InlineProps,
        declarations \in
            {<<>>,
             <<InterfaceDeclaration(propsName,
                                    <<PropertySignature(<<"z">>, FALSE, kwNumber)>>)>>}}

InitComponent ==
    /\ typeNode \in Components \cup InlineComponents
    /\ typeText = typeNode.text
    /\ schema = NoSchema
    /\ tpc = "detail"
    /\ NoFetch
    /\ NoGenerator

\* getDetailedType(symbol, location), from typeChecker.typeToString on
CallGetDetailedType ==
    /\ tpc = "detail"
    /\ typeText' = expandProps(typeText, typeNode.declarations)
    /\ tpc' = "call"
    /\ UNCHANGED <<typeNode, schema, fetchVars, generatorVars>>

NextComponent ==
    \/ CallGetDetailedType
    \/ CallTypeToJsonSchema

SpecComponent == InitComponent /\ [][NextComponent]_vars

\* the property signatures of the props interface of the component
propertySignatures ==
    {typeNode.declarations[1].members[i] :
        i \in DOMAIN typeNode.declarations[1].members}

\* the names under 'required' of the component's schema
requiredOfSchema ==
    IF "required" \in DOMAIN schema THEN Range(schema.required) ELSE {}

\* C19: the props schema of a component whose props type is a local interface
\* keeps the optionality of each property: one declared with '?' is not in
\* 'required', one declared without is
C19_ExpansionKeepsOptionality ==
    (tpc = "returned" /\ typeNode \in Components) =>
        \A member \in propertySignatures :
            member.kind = "PropertySignature" =>
                (member.name \in requiredOfSchema <=> ~member.questionToken)

\* C20: the schema of a component whose props type is a local interface with
\* k property and method signatures has exactly k properties, each named
\* after its signature
C20_OnePropertyPerSignature ==
    (tpc = "returned" /\ typeNode \in Components) =>
        /\ "properties" \in DOMAIN schema
        /\ schema.properties # Undefined
        /\ DOMAIN schema.properties =
              {member.name : member \in propertySignatures}

-----------------------------------------------------------------------------
(* The recursion of typeToJsonSchema: a call, the calls it makes, and so on  *)
(* down one path of the call tree, until a call returns.                     *)

\* the text of a props type that names itself
selfProps == <<"{", " ", "n", "e", "x", "t", ":", " ">> \o propsName \o <<";", " ", "}">>

\* components whose props interface or type alias names itself
SelfComponents ==
    {[k |-> "self", text |-> text, declarations |-> <<declaration>>] :
        text \in ComponentTexts,
        declaration \in
            {InterfaceDeclaration(propsName,
                                  <<PropertySignature(<<"n", "e", "x", "t">>, FALSE,
                                                      propsName)>>),
             TypeAliasDeclaration(propsName, selfProps),
             TypeAliasDeclaration(propsName, propsName)}}

InitCalls ==
    /\ \/ /\ typeNode \in TypeNodes
          /\ typeText = typeToString(typeNode)
          /\ tpc = "call"
       \/ /\ typeNode \in Components \cup InlineComponents \cup SelfComponents
          /\ typeText = typeNode.text
          /\ tpc = "detail"
    /\ schema = NoSchema
    /\ NoFetch
    /\ NoGenerator

\* the running call of typeToJsonSchema calls itself: typeNode is the call
\* made, and the text of the call that made it
RecursiveCall ==
    /\ tpc = "call"
    /\ \E argument \in recursiveCalls(typeText) :
          /\ typeNode' = [k |-> "recursive", caller |-> typeText]
          /\ typeText' = argument
    /\ UNCHANGED <<schema, tpc, fetchVars, generatorVars>>

NextCalls ==
    \/ CallGetDetailedType
    \/ RecursiveCall
    \/ CallTypeToJsonSchema

SpecCalls == InitCalls /\ [][NextCalls]_vars

\* the variant of the recursion: 0 for 'any', which is answered without a
\* call, and one more than its length for any other text
rank(typeString) == IF typeString = kwAny THEN 0 ELSE Len(typeString) + 1

\* typeNode is a recursive call of typeToJsonSchema
isRecursiveCall == typeNode.k = "recursive"

\* the text of the component after getDetailedType: the declared props in the
\* place of the name, expanded once
expandedOnce ==
    LET declaration == typeNode.declarations[1]
    IN  reactFC
        \o (IF declaration.kind = "InterfaceDeclaration"
            THEN expandInterface(declaration)
            ELSE expandTypeAlias(declaration))
        \o <<">">>

C21_PropsArgumentExtractedWhole ==
    (tpc = "returned" /\ typeNode \in InlineComponents) =>
        LET propsArgument == typeToString(typeNode.props)
        IN  /\ propsMatch(typeText).found
            /\ propsMatch(typeText).props = propsArgument
            /\ DOMAIN schema = {"type", "description", "properties"}
            /\ schema.type = "object"
            /\ schema.properties = typeToJsonSchema(propsArgument).properties
            /\ DOMAIN schema.properties =
                  {typeNode.props.members[i].name :
                      i \in DOMAIN typeNode.props.members}

\* C21: a component whose props hold a function type and a generic
\* instantiation has returned its schema
C21_Witness ==
    /\ tpc = "returned"
    /\ typeNode \in InlineComponents
    /\ includes(typeToString(typeNode.props), arrow)
    /\ includes(typeToString(typeNode.props), nameArray \o <<"<">>)
    /\ "properties" \in DOMAIN schema

-----------------------------------------------------------------------------
(* api.mjs: invocations of getExportsSchema that overlap, each making,       *)
(* reading and removing its temp file.                                       *)

\* the bounds: the invocations, and the milliseconds the clock advances
MaxCalls == 2
MaxClock == 2

\* an invocation that has not reached the temp file; invocation i writes the
\* content i, and read is the content its generator found
IdleCall == [pc |-> "idle", tempFilePath |-> <<>>, read |-> 0]

InitTemp ==
    /\ NoCall
    /\ NoFetch
    /\ NoRefs
    /\ now = 0
    /\ tmpdir = EmptyObject
    /\ calls = [i \in 1..MaxCalls |-> IdleCall]

\* a millisecond passes
Tick ==
    /\ now < MaxClock
    /\ now' = now + 1
    /\ UNCHANGED <<tmpdir, calls, refVars, schemaVars, fetchVars>>

\* invocation i makes tempFilePath of Date.now() and starts writeFile
MakeTempFilePath(i) ==
    /\ calls[i].pc = "idle"
    /\ calls' = [calls EXCEPT ![i] = [pc |-> "writing",
                                      tempFilePath |-> tempFilePath(now),
                                      read |-> 0]]
    /\ UNCHANGED <<now, tmpdir, refVars, schemaVars, fetchVars>>

\* the writeFile of invocation i resolves: the file holds the content of i
WriteFileResolves(i) ==
    /\ calls[i].pc = "writing"
    /\ tmpdir' = writeFile(tmpdir, calls[i].tempFilePath, i)
    /\ calls' = [calls EXCEPT ![i].pc = "written"]
    /\ UNCHANGED <<now, refVars, schemaVars, fetchVars>>

\* invocation i runs on after its await: the generator reads the file at
\* tempFilePath, and throws (it does when there is no file) or returns the
\* schema of what it read, and rimraf is started
CreateSchema(i) ==
    /\ calls[i].pc = "written"
    /\ IF calls[i].tempFilePath \notin DOMAIN tmpdir
       THEN calls' = [calls EXCEPT ![i].pc = "failed"]
       ELSE \E threw \in BOOLEAN :
               calls' = [calls EXCEPT
                            ![i].pc = IF threw THEN "failed" ELSE "removing",
                            ![i].read = tmpdir[calls[i].tempFilePath]]
    /\ UNCHANGED <<now, tmpdir, refVars, schemaVars, fetchVars>>

\* the rimraf of invocation i resolves
RimrafResolves(i) ==
    /\ calls[i].pc = "removing"
    /\ tmpdir' = rimraf(tmpdir, calls[i].tempFilePath)
    /\ calls' = [calls EXCEPT ![i].pc = "done"]
    /\ UNCHANGED <<now, refVars, schemaVars, fetchVars>>

NextTemp ==
    \/ Tick
    \/ \E i \in 1..MaxCalls : MakeTempFilePath(i)
    \/ \E i \in 1..MaxCalls : WriteFileResolves(i)
    \/ \E i \in 1..MaxCalls : CreateSchema(i)
    \/ \E i \in 1..MaxCalls : RimrafResolves(i)

SpecTemp == InitTemp /\ [][NextTemp]_vars

\* C28: invocations of getExportsSchema that overlap do not interfere through
\* the temp file: after its write an invocation finds its own content in its
\* file until the generator has read it, and the generator of an invocation
\* reads the content that invocation wrote
C28_NoInterferenceThroughTempFile ==
    \A i \in DOMAIN calls :
        /\ calls[i].pc = "written" =>
              /\ calls[i].tempFilePath \in DOMAIN tmpdir
              /\ tmpdir[calls[i].tempFilePath] = i
        /\ calls[i].pc \in {"removing", "done"} => calls[i].read = i

\* C29: when getExportsSchema has finished, by returning or by throwing, the
\* temp file it wrote no longer exists
C29_TempFileRemovedWhenFinished ==
    (version = "api.mjs" /\ fpc = "done") => tempFilePath(now) \notin DOMAIN tmpdir

-----------------------------------------------------------------------------
(* api.mjs: resolveRefs over the definitions of a generated schema.          *)

\* the bound: the definitions of a schema
MaxDefinitions == 3

\* the names of the definitions, each referring only to later ones, and a
\* name that is no definition
DefinitionNames == <<(<<"A">>), (<<"B">>), (<<"C">>), (<<"D">>)>>
noDefinition == <<"Z">>

\* {$ref: '#/definitions/name'}
DefinitionRef(name) == "$ref" :> (refPrefix \o name)

\* the schemas of a definition that refers to one of targets, or to nothing:
\* a string, the reference itself, an object with a property that is the
\* reference, an array whose items are the reference
Bodies(targets) ==
    {[type |-> "string"]}
    \cup {DefinitionRef(t) : t \in targets}
    \cup {[type |-> "object", properties |-> [p |-> DefinitionRef(t)]] :
             t \in targets}
    \cup {[type |-> "array", items |-> DefinitionRef(t)] : t \in targets}

\* the acyclic sets of n definitions: definition i refers to definitions
\* after i, or to a name that is no definition
DefinitionSets(n) ==
    LET names == {DefinitionNames[i] : i \in 1..n}
        later(i) == {DefinitionNames[j] : j \in (i + 1)..n} \cup {noDefinition}
        index(name) == CHOOSE i \in 1..n : DefinitionNames[i] = name
    IN  {d \in [names -> Bodies(names \cup {noDefinition})] :
            \A name \in names : d[name] \in Bodies(later(index(name)))}

InitRefs ==
    /\ NoCall
    /\ NoFetch
    /\ NoTemp
    /\ \E definitions \in DefinitionSets(MaxDefinitions) :
          tsjSchema = [definitions |-> definitions]
    /\ processedDefinitions = Undefined

\* the loop over Object.entries(schema.definitions)
ProcessDefinitions ==
    /\ processedDefinitions = Undefined
    /\ processedDefinitions' = processDefinitions(tsjSchema.definitions)
    /\ UNCHANGED <<tsjSchema, tempVars, schemaVars, fetchVars>>

NextRefs == ProcessDefinitions

SpecRefs == InitRefs /\ [][NextRefs]_vars

\* obj holds, at some depth, a reference to one of the definitions
RECURSIVE refersTo(_, _)
refersTo(obj, definitions) ==
    \/ isDefinitionRef(obj) /\ refName(obj) \in DOMAIN definitions
    \/ \E key \in DOMAIN obj \ StringKeys : refersTo(obj[key], definitions)

\* C30: after reference resolution no processed definition of an acyclic set
\* of definitions holds, at any depth, a reference to a definition of the set
C30_NoReferenceLeft ==
    processedDefinitions # Undefined =>
        \A key \in DOMAIN processedDefinitions :
            ~refersTo(processedDefinitions[key], tsjSchema.definitions)

====
